---------------------------- MODULE Spec2Model ----------------------------
(***************************************************************************)
(* A model of src/app.py, the Multi-Cloud Cost Explorer (a Streamlit        *)
(* script).  Streamlit runs the script top to bottom once at start-up and   *)
(* once more after every widget interaction, so each action below changes   *)
(* one widget and then performs the whole rendering pass: load, global      *)
(* filters, the overall tab and the client tab.                             *)
(*                                                                         *)
(* Text is modelled as a sequence of one-character strings, a table as      *)
(* [cols |-> set of column names, rows |-> sequence of records].  Numeric   *)
(* columns hold naturals; a parsed date is a day ordinal and NaT its        *)
(* missing marker; NaN is the missing marker of a categorical cell and      *)
(* NoText the missing marker (None / an empty cell) of a text cell.  An     *)
(* optional result is <<>> (not computed) or <<v>>.                         *)
(***************************************************************************)
EXTENDS Integers, Sequences, FiniteSets, TLC

VARIABLES uploaded_file,   \* the file object handed to load_uploaded_file
          date_range,      \* sidebar date_input: <<>> (None), <<start>> or <<start, end>>
          providers,       \* sidebar multiselect "Cloud providers"
          resources,       \* sidebar multiselect "Resource types"
          search_query,    \* text_input "Search client name"
          selected_client, \* selectbox "Select a client" (NoText: None)
          data,            \* the loaded table
          filtered,        \* the globally filtered table
          signals,         \* st.error / st.warning / st.info messages of the pass
          error,           \* "none", or the exception that ended the pass
          overall,         \* results shown on the overall tab
          client_view,     \* results shown on the client tab
          session          \* the values the widgets hold (Streamlit's session state)

vars == <<uploaded_file, date_range, providers, resources, search_query,
          selected_client, data, filtered, signals, error, overall, client_view,
          session>>

-----------------------------------------------------------------------------
(* Missing markers and optional values *)

NaT == 0
NaN == "NaN"
NoText == <<>>
None == <<>>
Some(v) == <<v>>

EmptyFrame == [cols |-> {}, rows |-> <<>>]

-----------------------------------------------------------------------------
(* Text: str.lower, str.split("."), substring test, code-point order *)

Upper == <<"A", "B", "C", "D", "E", "F", "G", "H", "I", "J", "K", "L", "M",
           "N", "O", "P", "Q", "R", "S", "T", "U", "V", "W", "X", "Y", "Z">>

LowerCase == <<"a", "b", "c", "d", "e", "f", "g", "h", "i", "j", "k", "l", "m",
               "n", "o", "p", "q", "r", "s", "t", "u", "v", "w", "x", "y", "z">>

Digits == <<"0", "1", "2", "3", "4", "5", "6", "7", "8", "9">>

Other == <<".", "/", "_", " ">>

Range(seq) == {seq[i] : i \in DOMAIN seq}

Chars == Range(Upper) \cup Range(LowerCase) \cup Range(Digits) \cup Range(Other)

IndexOf(c, alphabet) == CHOOSE i \in DOMAIN alphabet : alphabet[i] = c

\* c.lower(), for every character of the model's texts
LowerChar ==
    [c \in Chars |-> IF c \in Range(Upper) THEN LowerCase[IndexOf(c, Upper)] ELSE c]

\* str.lower()
Lower(s) == [i \in 1..Len(s) |-> LowerChar[s[i]]]

\* ord(c), for the letters and the digits
Ord ==
    [c \in Range(Upper) \cup Range(LowerCase) \cup Range(Digits) |->
       IF c \in Range(Upper) THEN 64 + IndexOf(c, Upper)
       ELSE IF c \in Range(LowerCase) THEN 96 + IndexOf(c, LowerCase)
       ELSE 47 + IndexOf(c, Digits)]

RECURSIVE SplitDot(_, _)
\* name.split("."): cur is the segment being read
SplitDot(s, cur) ==
    IF s = <<>> THEN <<cur>>
    ELSE IF Head(s) = "." THEN <<cur>> \o SplitDot(Tail(s), <<>>)
    ELSE SplitDot(Tail(s), Append(cur, Head(s)))

Split(s) == SplitDot(s, <<>>)

\* A variant that takes the segment after the first dot
SuffixAfterFirstDot(name) ==
    Lower(Split(name)[IF Len(Split(name)) >= 2 THEN 2 ELSE 1])

\* uploaded_file.name.split(".")[-1].lower()
Suffix(name) == Lower(Split(name)[Len(Split(name))])

\* A variant that matches at the start only
StartsWith(sub, s) == Len(sub) <= Len(s) /\ SubSeq(s, 1, Len(sub)) = sub

\* sub in s
Contains(sub, s) ==
    \E i \in 0..(Len(s) - Len(sub)) : SubSeq(s, i + 1, i + Len(sub)) = sub

RECURSIVE LtStr(_, _)
\* Python's str <: lexicographic by code point
LtStr(a, b) ==
    IF b = <<>> THEN FALSE
    ELSE IF a = <<>> THEN TRUE
    ELSE IF Ord[Head(a)] # Ord[Head(b)] THEN Ord[Head(a)] < Ord[Head(b)]
    ELSE LtStr(Tail(a), Tail(b))

RECURSIVE Sorted(_)
\* sorted(...) of a set of distinct strings
Sorted(S) ==
    IF S = {} THEN <<>>
    ELSE LET m == CHOOSE x \in S : \A y \in S \ {x} : LtStr(x, y)
         IN  <<m>> \o Sorted(S \ {m})

-----------------------------------------------------------------------------
(* load_uploaded_file *)

csv == <<"c", "s", "v">>
gz == <<"g", "z">>
parquet == <<"p", "a", "r", "q", "u", "e", "t">>
xlsx == <<"x", "l", "s", "x">>
xls == <<"x", "l", "s">>
json == <<"j", "s", "o", "n">>

Supported == {csv, gz, parquet, xlsx, xls, json}

\* The text of a Date cell that pd.to_datetime can parse
Parseable(cell) == cell \in {"", "2024-01-01", "2024-01-02", "2024-01-03"}

\* pd.to_datetime on one cell: the day ordinal, NaT for an empty cell
ToDatetime(cell) ==
    CASE cell = "2024-01-01" -> 1
      [] cell = "2024-01-02" -> 2
      [] cell = "2024-01-03" -> 3
      [] cell = "" -> NaT

\* The decoders (read_csv, read_parquet, read_excel, read_json) return the table
\* the file holds; an unrecognised suffix gives st.error and pd.DataFrame()
Decode(file) ==
    IF Suffix(file.name) \in Supported
    THEN [df |-> [cols |-> file.cols, rows |-> file.rows], signals |-> {}]
    ELSE [df |-> EmptyFrame, signals |-> {"Unsupported file type"}]

\* pd.to_datetime(df["Date"]) with the default errors="raise"
CoerceDates(df) ==
    IF \E i \in DOMAIN df.rows : ~Parseable(df.rows[i].Date)
    THEN [error |-> "ValueError", df |-> EmptyFrame]
    ELSE [error |-> "none",
          df |-> [cols |-> df.cols,
                  rows |-> [i \in DOMAIN df.rows |->
                             [df.rows[i] EXCEPT !.Date = ToDatetime(@)]]]]

load_uploaded_file(file) ==
    LET dec == Decode(file)
        co == IF "Date" \in dec.df.cols
              THEN CoerceDates(dec.df)
              ELSE [error |-> "none", df |-> dec.df]
    IN  [error |-> co.error, df |-> co.df, signals |-> dec.signals]

-----------------------------------------------------------------------------
(* Series arithmetic: sum, mean, division, group-by-sum, sort_values *)

\* A quotient num/den as pandas computes it: den = 0 gives inf (num > 0) or
\* NaN (num = 0), never an exception
Ratio(num, den) == [num |-> num, den |-> den]

IsNaNRatio(q) == q.den = 0 /\ q.num = 0

IsInf(q) == q.den = 0 /\ q.num > 0

RECURSIVE SumCol(_, _)
\* Series.sum() of column c
SumCol(rows, c) ==
    IF rows = <<>> THEN 0 ELSE Head(rows)[c] + SumCol(Tail(rows), c)

\* Series.mean() of column c: sum / count, NaN for no rows
MeanCol(rows, c) == Ratio(SumCol(rows, c), Len(rows))

\* Series.unique()
Unique(rows, c) == {rows[i][c] : i \in DOMAIN rows}

IsNull(c, v) == IF c = "Date" THEN v = NaT ELSE v = NaN

\* df.groupby(g)[v].sum(): one group per distinct key; groupby's default
\* dropna=True leaves the rows with a missing key out
GroupKeys(rows, g) == {k \in Unique(rows, g) : ~IsNull(g, k)}

GroupBySum(rows, g, v) ==
    [k \in GroupKeys(rows, g) |-> SumCol(SelectSeq(rows, LAMBDA r : r[g] = k), v)]

\* client_data["CostUSD"] / client_data["UsageHours"]
UnitCosts(rows) == [i \in DOMAIN rows |-> Ratio(rows[i].CostUSD, rows[i].UsageHours)]

RECURSIVE ProdDen(_)
ProdDen(qs) == IF qs = <<>> THEN 1 ELSE Head(qs).den * ProdDen(Tail(qs))

RECURSIVE SumOver(_, _)
\* the numerator of the sum of the quotients qs over the common denominator d
SumOver(qs, d) ==
    IF qs = <<>> THEN 0
    ELSE Head(qs).num * (d \div Head(qs).den) + SumOver(Tail(qs), d)

\* unit_costs.mean(): NaN cells are skipped, an inf cell makes the mean inf
MeanRatios(qs) ==
    LET real == SelectSeq(qs, LAMBDA q : ~IsNaNRatio(q))
        d == ProdDen(real)
    IN  IF real = <<>> THEN Ratio(0, 0)
        ELSE IF \E i \in DOMAIN real : IsInf(real[i]) THEN Ratio(1, 0)
        ELSE Ratio(SumOver(real, d), d * Len(real))

\* a >= b on the sort column
GeBy(by, a, b) ==
    IF by = "CostPerHour"
    THEN a.CostPerHour.num * b.CostPerHour.den >= b.CostPerHour.num * a.CostPerHour.den
    ELSE a[by] >= b[by]

RECURSIVE InsertDesc(_, _, _)
\* r goes after the rows that are >= r: equal rows keep their order
InsertDesc(r, sorted, by) ==
    IF sorted = <<>> THEN <<r>>
    ELSE IF GeBy(by, Head(sorted), r)
         THEN <<Head(sorted)>> \o InsertDesc(r, Tail(sorted), by)
         ELSE <<r>> \o sorted

RECURSIVE SortDesc(_, _)
\* df.sort_values(by=..., ascending=False)
SortDesc(rows, by) ==
    IF rows = <<>> THEN <<>>
    ELSE InsertDesc(rows[Len(rows)], SortDesc(SubSeq(rows, 1, Len(rows) - 1), by), by)

HeadN == 5

\* df.head(5)
Head5(rows) == SubSeq(rows, 1, IF Len(rows) < HeadN THEN Len(rows) ELSE HeadN)

-----------------------------------------------------------------------------
(* Global filters *)

\* A variant with the end day excluded
InDateRangeEndExcluded(d, range) ==
    /\ d # NaT /\ range[1] # NaT /\ range[2] # NaT
    /\ d >= range[1]
    /\ d < range[2]

\* (Date >= start) & (Date <= end); a comparison with NaT is False
InDateRange(d, range) ==
    /\ d # NaT /\ range[1] # NaT /\ range[2] # NaT
    /\ d >= range[1]
    /\ d <= range[2]

ApplyFilters(df, range, provs, ress) ==
    LET f1 == IF range # None /\ "Date" \in df.cols
              THEN SelectSeq(df.rows, LAMBDA r : InDateRange(r.Date, range))
              ELSE df.rows
        f2 == IF "CloudProvider" \in df.cols /\ provs # {}
              THEN SelectSeq(f1, LAMBDA r : r.CloudProvider \in provs)
              ELSE f1
        f3 == IF "ResourceType" \in df.cols /\ ress # {}
              THEN SelectSeq(f2, LAMBDA r : r.ResourceType \in ress)
              ELSE f2
    IN  [cols |-> df.cols, rows |-> f3]

-----------------------------------------------------------------------------
(* Overall Insights tab *)

CostBy(df, g) ==
    IF g \in df.cols /\ "CostUSD" \in df.cols
    THEN Some(GroupBySum(df.rows, g, "CostUSD"))
    ELSE None

OverallTab(df) ==
    [total_cost |-> IF "CostUSD" \in df.cols
                    THEN Some(SumCol(df.rows, "CostUSD")) ELSE None,
     avg_usage |-> IF "UsageHours" \in df.cols
                   THEN Some(MeanCol(df.rows, "UsageHours")) ELSE None,
     provider_costs |-> CostBy(df, "CloudProvider"),
     resource_costs |-> CostBy(df, "ResourceType"),
     daily_costs |-> CostBy(df, "Date"),
     region_costs |-> CostBy(df, "Region"),
     cc_costs |-> CostBy(df, "CostCenter")]

NoOverall ==
    [total_cost |-> None, avg_usage |-> None, provider_costs |-> None,
     resource_costs |-> None, daily_costs |-> None, region_costs |-> None,
     cc_costs |-> None]

-----------------------------------------------------------------------------
(* Client Specific Insights tab *)

\* [c for c in unique_clients if search_query.lower() in c.lower()]
\*   if search_query else unique_clients
SearchClients(unique_clients, query) ==
    IF query # <<>>
    THEN SelectSeq(unique_clients, LAMBDA c : Contains(Lower(query), Lower(c)))
    ELSE unique_clients

\* sorted(data["Client"].dropna().unique()), then the search
FilteredClientList(df, query) ==
    SearchClients(Sorted(Unique(df.rows, "Client") \ {NoText}), query)

\* st.selectbox: the first option until the user picks one, None without options
FirstOption(options) == IF options = <<>> THEN None ELSE options[1]

\* data[data["Client"] == selected_client]: a missing cell equals nothing,
\* and nothing equals None
ClientData(df, selected) ==
    SelectSeq(df.rows,
              LAMBDA r : r.Client # NoText /\ selected # None /\ r.Client = selected)

\* client_data.assign(CostPerHour=CostUSD / UsageHours)
AssignCostPerHour(rows) ==
    [i \in DOMAIN rows |->
       [CostPerHour |-> Ratio(rows[i].CostUSD, rows[i].UsageHours)] @@ rows[i]]

\* hours < threshold, threshold = client_data["UsageHours"].mean() * 0.2 with
\* mean the quotient sum / count
Below(hours, mean) == hours * 5 * mean.den < mean.num

\* client_data[(UsageHours < threshold) & (CostUSD > 0)]
SelectUnderutilized(rows, mean) ==
    SelectSeq(rows, LAMBDA r : Below(r.UsageHours, mean) /\ r.CostUSD > 0)

Underutilized(rows) ==
    SortDesc(SelectUnderutilized(AssignCostPerHour(rows), MeanCol(rows, "UsageHours")),
             "CostPerHour")

DisplayCols ==
    {"Date", "CloudProvider", "ResourceType", "UsageHours", "CostUSD", "CostPerHour"}

\* underutilized[[...]].head(5)
ShownUnderutilized(rows) ==
    Head5([i \in DOMAIN rows |-> [c \in DisplayCols |-> rows[i][c]]])

\* client_data.sort_values(by="CostUSD", ascending=False).head(5), with
\* CostPerHour when UsageHours is there
Top5(cols, rows) ==
    IF "UsageHours" \in cols
    THEN AssignCostPerHour(Head5(SortDesc(rows, "CostUSD")))
    ELSE Head5(SortDesc(rows, "CostUSD"))

\* A variant without the check for an empty client table
NeverEmpty(rows) == FALSE

\* client_data.empty
IsEmpty(rows) == rows = <<>>

NoClientView ==
    [filtered_client_list |-> None, client_data |-> None, total_cost |-> None,
     avg_usage |-> None, avg_cost_per_hour |-> None, provider_costs |-> None,
     resource_costs |-> None, region_costs |-> None, cc_costs |-> None,
     unit_costs_all |-> None, top5 |-> None, underutilized |-> None,
     shown_underutilized |-> None]

\* Lines 208-215, the summary metrics: the quotient reads CostUSD under a
\* check of UsageHours alone
SummaryError(cols) ==
    IF "UsageHours" \in cols /\ "CostUSD" \notin cols THEN "KeyError" ELSE "none"

\* Line 295, the display of the underutilized rows: it reads Date,
\* CloudProvider and ResourceType without a check
DisplayError(cols, under) ==
    IF under # <<>> /\ ~(DisplayCols \ {"CostPerHour"} \subseteq cols)
    THEN "KeyError" ELSE "none"

\* Lines 288-295
UnderutilizedView(view, cols, under) ==
    [view EXCEPT
       !.underutilized = Some(under),
       !.shown_underutilized =
          IF under # <<>> /\ DisplayError(cols, under) = "none"
          THEN Some(ShownUnderutilized(under)) ELSE None]

\* Lines 217-286, the charts and the top cost drivers
ChartsView(view, cd) ==
    [view EXCEPT
       !.provider_costs = CostBy(cd, "CloudProvider"),
       !.resource_costs = CostBy(cd, "ResourceType"),
       !.region_costs = CostBy(cd, "Region"),
       !.cc_costs = CostBy(cd, "CostCenter"),
       !.unit_costs_all = IF "UsageHours" \in cd.cols /\ "CostUSD" \in cd.cols
                          THEN Some(UnitCosts(cd.rows)) ELSE None,
       !.top5 = IF "CostUSD" \in cd.cols THEN Some(Top5(cd.cols, cd.rows)) ELSE None]

\* Lines 208-215
SummaryView(view, cd) ==
    [view EXCEPT
       !.total_cost = IF "CostUSD" \in cd.cols
                      THEN Some(SumCol(cd.rows, "CostUSD")) ELSE None,
       !.avg_usage = IF "UsageHours" \in cd.cols
                     THEN Some(MeanCol(cd.rows, "UsageHours")) ELSE None,
       !.avg_cost_per_hour = IF "UsageHours" \in cd.cols /\ "CostUSD" \in cd.cols
                             THEN Some(MeanRatios(UnitCosts(cd.rows))) ELSE None]

\* The else branch of line 207, for the rows under of line 292
ClientResults(view, cd, under) ==
    IF SummaryError(cd.cols) # "none"
    THEN [error |-> SummaryError(cd.cols), view |-> SummaryView(view, cd)]
    ELSE IF "UsageHours" \in cd.cols /\ "CostUSD" \in cd.cols
    THEN [error |-> DisplayError(cd.cols, under),
          view |-> UnderutilizedView(ChartsView(SummaryView(view, cd), cd), cd.cols, under)]
    ELSE [error |-> "none", view |-> ChartsView(SummaryView(view, cd), cd)]

NoMatch(list) == IF list = <<>> THEN {"No clients match your search"} ELSE {}

\* Lines 199-207, for the options list of the selectbox and the table cd of
\* the selected client
ClientTabOf(list, cd) ==
    IF IsEmpty(cd.rows)
    THEN [signals |-> NoMatch(list) \cup {"No data found"}, error |-> "none",
          view |-> [NoClientView EXCEPT !.filtered_client_list = Some(list),
                                        !.client_data = Some(cd.rows)]]
    ELSE [signals |-> NoMatch(list)] @@
         ClientResults([NoClientView EXCEPT !.filtered_client_list = Some(list),
                                            !.client_data = Some(cd.rows)],
                       cd,
                       IF "UsageHours" \in cd.cols /\ "CostUSD" \in cd.cols
                       THEN Underutilized(cd.rows) ELSE <<>>)

ClientTab(df, query, selected) ==
    IF "Client" \notin df.cols
    THEN [signals |-> {"no Client column"}, error |-> "none", view |-> NoClientView]
    ELSE ClientTabOf(FilteredClientList(df, query),
                     [cols |-> df.cols, rows |-> ClientData(df, selected)])

-----------------------------------------------------------------------------
(* Widgets.  Streamlit keys the value a widget holds by the widget's label    *)
(* and arguments: a widget created again with the same arguments returns the  *)
(* value the user left in it, one created with other arguments returns its    *)
(* default.  A pass that ends without an exception forgets the widgets it did *)
(* not create; a pass that ends in an exception forgets nothing.              *)

AddUnique(seq, v) == IF v \in Range(seq) THEN seq ELSE Append(seq, v)

RECURSIVE UniqueSeq(_, _)
\* Series.unique(): the distinct values in the order of their first appearance
UniqueSeq(rows, c) ==
    IF rows = <<>> THEN <<>>
    ELSE AddUnique(UniqueSeq(SubSeq(rows, 1, Len(rows) - 1), c), rows[Len(rows)][c])

\* The values held: for each widget, pairs <<arguments, value>>
NoSession ==
    [client |-> {}, date |-> {}, providers |-> {}, resources |-> {}, search |-> {}]

\* The session of a new process: the same widgets, none holding a value
NewSession(sess) == [w \in DOMAIN sess |-> {}]

Held(entries, args) == {e \in entries : e[1] = args}

\* What the widget created with args returns
WidgetValue(entries, args, default) ==
    IF Held(entries, args) = {} THEN default
    ELSE (CHOOSE e \in Held(entries, args) : TRUE)[2]

\* The user sets the widget created with args to v
Put(entries, args, v) == {e \in entries : e[1] # args} \cup {<<args, v>>}

Dates(df) == Unique(df.rows, "Date") \ {NaT}

MinOf(S) == IF S = {} THEN NaT ELSE CHOOSE d \in S : \A e \in S : d <= e

MaxOf(S) == IF S = {} THEN NaT ELSE CHOOSE d \in S : \A e \in S : d >= e

\* value=(min_date, max_date)
DefaultRange(df) == <<MinOf(Dates(df)), MaxOf(Dates(df))>>

Options(df, c) == IF c \in df.cols THEN Unique(df.rows, c) ELSE {}

\* Lines 73-95, the sidebar widgets
Sidebar(df, sess) ==
    [date_range |-> IF "Date" \in df.cols
                    THEN WidgetValue(sess.date, DefaultRange(df), DefaultRange(df))
                    ELSE None,
     providers |-> IF "CloudProvider" \in df.cols
                   THEN WidgetValue(sess.providers, UniqueSeq(df.rows, "CloudProvider"),
                                    Options(df, "CloudProvider"))
                   ELSE {},
     resources |-> IF "ResourceType" \in df.cols
                   THEN WidgetValue(sess.resources, UniqueSeq(df.rows, "ResourceType"),
                                    Options(df, "ResourceType"))
                   ELSE {}]

SearchLabel == "Search client name"

\* Line 201 for the options list: the value held, or the first option
Selectbox(sess, options) == WidgetValue(sess.client, options, FirstOption(options))

\* Lines 196-201, the widgets of the client tab
ClientWidgetsOf(sess, search, options) ==
    [rendered |-> TRUE, search_query |-> search, options |-> options,
     selected_client |-> Selectbox(sess, options)]

ClientWidgetsFor(df, sess, search) ==
    ClientWidgetsOf(sess, search, FilteredClientList(df, search))

ClientWidgets(df, sess) ==
    IF "Client" \in df.cols
    THEN ClientWidgetsFor(df, sess, WidgetValue(sess.search, SearchLabel, <<>>))
    ELSE [rendered |-> FALSE, search_query |-> <<>>, options |-> <<>>,
          selected_client |-> None]

\* The widgets a pass created, with the values they returned
SidebarEntries(df, side) ==
    [date |-> IF "Date" \in df.cols
              THEN {<<DefaultRange(df), side.date_range>>} ELSE {},
     providers |-> IF "CloudProvider" \in df.cols
                   THEN {<<UniqueSeq(df.rows, "CloudProvider"), side.providers>>} ELSE {},
     resources |-> IF "ResourceType" \in df.cols
                   THEN {<<UniqueSeq(df.rows, "ResourceType"), side.resources>>} ELSE {},
     search |-> {}, client |-> {}]

Entries(df, side, cw) ==
    IF cw.rendered
    THEN [SidebarEntries(df, side) EXCEPT
            !.search = {<<SearchLabel, cw.search_query>>},
            !.client = {<<cw.options, cw.selected_client>>}]
    ELSE SidebarEntries(df, side)

\* The values held after a pass that created the widgets of created
Finish(sess, created, err) ==
    IF err = "none" THEN created
    ELSE [w \in DOMAIN sess |->
            {e \in sess[w] : \A r \in created[w] : r[1] # e[1]} \cup created[w]]

-----------------------------------------------------------------------------
(* One run of the script *)

\* A variant in which the client tab reads the globally filtered table
FilteredSource(df, shown) == shown

\* The table the client tab reads (lines 192-203): the loaded one
ClientSource(df, shown) == df

\* Line 61 raised: nothing of the page is created
LoadFailed(ld, sess) ==
    [data |-> EmptyFrame, filtered |-> EmptyFrame, signals |-> ld.signals,
     error |-> ld.error, overall |-> NoOverall, client_view |-> NoClientView,
     date_range |-> None, providers |-> {}, resources |-> {},
     search_query |-> <<>>, selected_client |-> None, session |-> sess]

\* Lines 99-103 with a range of which only the start is picked: date_range[1]
\* raises IndexError after filtered = data.copy(), before the tabs
FilterFailed(ld, side, sess) ==
    [data |-> ld.df, filtered |-> ld.df, signals |-> ld.signals,
     error |-> "IndexError", overall |-> NoOverall, client_view |-> NoClientView,
     date_range |-> side.date_range, providers |-> side.providers,
     resources |-> side.resources, search_query |-> <<>>, selected_client |-> None,
     session |-> Finish(sess, SidebarEntries(ld.df, side), "IndexError")]

\* Lines 109-295, the two tabs
Tabs(ld, side, shown, cw, ct, sess) ==
    [data |-> ld.df, filtered |-> shown, signals |-> ld.signals \cup ct.signals,
     error |-> ct.error, overall |-> OverallTab(shown), client_view |-> ct.view,
     date_range |-> side.date_range, providers |-> side.providers,
     resources |-> side.resources, search_query |-> cw.search_query,
     selected_client |-> cw.selected_client,
     session |-> Finish(sess, Entries(ld.df, side, cw), ct.error)]

WithClient(ld, side, shown, src, cw, sess) ==
    Tabs(ld, side, shown, cw, ClientTab(src, cw.search_query, cw.selected_client), sess)

WithSource(ld, side, shown, src, sess) ==
    WithClient(ld, side, shown, src, ClientWidgets(src, sess), sess)

WithFiltered(ld, side, shown, sess) ==
    WithSource(ld, side, shown, ClientSource(ld.df, shown), sess)

\* Lines 97-295, after the sidebar
WithSidebar(ld, side, sess) ==
    IF Len(side.date_range) = 1
    THEN FilterFailed(ld, side, sess)
    ELSE WithFiltered(ld, side,
                      ApplyFilters(ld.df, side.date_range, side.providers, side.resources),
                      sess)

Page(ld, sess) ==
    IF ld.error # "none" THEN LoadFailed(ld, sess)
    ELSE WithSidebar(ld, Sidebar(ld.df, sess), sess)

\* The script over file with the widget values sess.  load_uploaded_file is
\* cached (st.cache_data): a rerun over the same file gets the same table
RenderPass(file, sess) == Page(load_uploaded_file(file), sess)

-----------------------------------------------------------------------------
(* The files offered to the uploader *)

File(name, cols, rows) == [name |-> name, cols |-> cols, rows |-> rows]

Restrict(r, cols) == [c \in cols |-> r[c]]

\* The tables of at most n rows whose rows are those of full cut to cols
TablesOver(full, cols, n) ==
    UNION {[1..k -> {Restrict(r, cols) : r \in full}] : k \in 0..n}

\* The files named in names, holding the tables of at most n rows over each
\* column set of colsets
FilesOver(names, full, colsets, n) ==
    UNION {UNION {{File(nm, cs, rows) : rows \in TablesOver(full, cs, n)} :
                    cs \in colsets} : nm \in names}

NameCsv == <<"a", ".", "c", "s", "v">>
NameCsvUpper == <<"a", ".", "C", "S", "V">>
NameGz == <<"a", ".", "c", "s", "v", ".", "g", "z">>
NameParquet == <<"a", ".", "p", "a", "r", "q", "u", "e", "t">>
NameXlsx == <<"a", ".", "X", "l", "s", "x">>
NameXls == <<"a", ".", "x", "l", "s">>
NameJson == <<"a", ".", "J", "S", "O", "N">>
NameTxt == <<"a", ".", "t", "x", "t">>
NameBak == <<"a", ".", "c", "s", "v", ".", "b", "a", "k">>
NameNoDot == <<"r", "e", "a", "d", "m", "e">>
NameTrailingDot == <<"a", ".", "c", "s", "v", ".">>
NameCsvx == <<"a", ".", "C", "S", "V", "X">>

EndsWith(s, t) == Len(t) <= Len(s) /\ SubSeq(s, Len(s) - Len(t) + 1, Len(s)) = t

\* type=["csv", "gz", "parquet", "xlsx", "xls", "json"]
UploaderTypes ==
    {<<"c", "s", "v">>, <<"g", "z">>, <<"p", "a", "r", "q", "u", "e", "t">>,
     <<"x", "l", "s", "x">>, <<"x", "l", "s">>, <<"j", "s", "o", "n">>}

\* st.file_uploader takes a file whose name ends, whatever the case, in a dot
\* and one of its types, and refuses any other
Accepted(name) == \E t \in UploaderTypes : EndsWith(Lower(name), <<".">> \o t)

FileNames ==
    {NameCsv, NameCsvUpper, NameGz, NameParquet, NameXlsx, NameXls, NameJson,
     NameTxt, NameBak, NameNoDot, NameTrailingDot, NameCsvx}

Acme == <<"A", "c", "m", "e">>
Bravo == <<"B", "r", "a", "v", "o">>
acme2 == <<"a", "c", "m", "e", "2">>
ACME == <<"A", "C", "M", "E">>

\* The bundled data/multi_cloud_usage.csv
DefaultFile ==
    File(<<"d", "a", "t", "a", "/", "m", "u", "l", "t", "i", "_", "c", "l", "o", "u",
           "d", "_", "u", "s", "a", "g", "e", ".", "c", "s", "v">>,
         {"Date", "Client", "CloudProvider", "ResourceType", "UsageHours", "CostUSD",
          "Region", "CostCenter"},
         <<[Date |-> "2024-01-01", Client |-> Acme, CloudProvider |-> "AWS",
            ResourceType |-> "VM", UsageHours |-> 10, CostUSD |-> 100,
            Region |-> "eu", CostCenter |-> "cc1"],
           [Date |-> "2024-01-02", Client |-> Acme, CloudProvider |-> "AWS",
            ResourceType |-> "DB", UsageHours |-> 5, CostUSD |-> 50,
            Region |-> "us", CostCenter |-> "cc1"],
           [Date |-> "2024-01-03", Client |-> Bravo, CloudProvider |-> "GCP",
            ResourceType |-> "VM", UsageHours |-> 6, CostUSD |-> 30,
            Region |-> "eu", CostCenter |-> "cc2"]>>)

-----------------------------------------------------------------------------
(* Actions: one widget interaction, then the whole script *)

\* The state after a pass with output out
Commit(file, out) ==
    /\ uploaded_file' = file
    /\ date_range' = out.date_range
    /\ providers' = out.providers
    /\ resources' = out.resources
    /\ search_query' = out.search_query
    /\ selected_client' = out.selected_client
    /\ session' = out.session
    /\ data' = out.data
    /\ filtered' = out.filtered
    /\ signals' = out.signals
    /\ error' = out.error
    /\ overall' = out.overall
    /\ client_view' = out.client_view

Rerun(file, sess) == Commit(file, RenderPass(file, sess))

\* The page after the first run of a session, with output out
FirstPage(file, out) ==
    /\ uploaded_file = file
    /\ date_range = out.date_range
    /\ providers = out.providers
    /\ resources = out.resources
    /\ search_query = out.search_query
    /\ selected_client = out.selected_client
    /\ session = out.session
    /\ data = out.data
    /\ filtered = out.filtered
    /\ signals = out.signals
    /\ error = out.error
    /\ overall = out.overall
    /\ client_view = out.client_view

\* The first run of a session is over the bundled file, the uploader being
\* empty
FirstRun == RenderPass(DefaultFile, NoSession)

\* The page after the first upload of a session
StartWith(file) == Accepted(file.name) /\ FirstPage(file, RenderPass(file, FirstRun.session))

\* A new file, if the uploader takes it: the widgets keep what they hold
Upload(file) == Accepted(file.name) /\ Rerun(file, session)

\* The user removes the file from the uploader: line 63 opens the bundled file
ClearUpload == uploaded_file # DefaultFile /\ Rerun(DefaultFile, session)

\* load_uploaded_file called on its own with a file object of any name, and
\* lines 65-295 over the table it returns
CallLoad(file) == Rerun(file, NewSession(session))

\* The sidebar is on the page when load returned a table
Loaded == error # "ValueError"

\* The search box and the selectbox are on the page when the pass reached the
\* client tab of a table with a Client column
ClientShown == error \notin {"ValueError", "IndexError"} /\ "Client" \in data.cols

SetDate(range) ==
    /\ Loaded /\ "Date" \in data.cols
    /\ Rerun(uploaded_file,
             [session EXCEPT !.date = Put(@, DefaultRange(data), range)])

\* Both ends of the range picked
SetDateRange(start, end) == start <= end /\ SetDate(<<start, end>>)

\* The start of a new range picked, the end not yet: st.date_input returns
\* a 1-tuple and the script reruns
PickStart(start) == SetDate(<<start>>)

SetProviders(chosen) ==
    /\ Loaded /\ "CloudProvider" \in data.cols
    /\ Rerun(uploaded_file,
             [session EXCEPT
                !.providers = Put(@, UniqueSeq(data.rows, "CloudProvider"), chosen)])

SetResources(chosen) ==
    /\ Loaded /\ "ResourceType" \in data.cols
    /\ Rerun(uploaded_file,
             [session EXCEPT
                !.resources = Put(@, UniqueSeq(data.rows, "ResourceType"), chosen)])

\* The options of the selectbox on the page
ClientOptions == IF ClientShown THEN client_view.filtered_client_list[1] ELSE <<>>

SetSearch(query) ==
    /\ ClientShown
    /\ Rerun(uploaded_file, [session EXCEPT !.search = Put(@, SearchLabel, query)])

SelectClient(c) ==
    /\ ClientShown
    /\ Rerun(uploaded_file, [session EXCEPT !.client = Put(@, ClientOptions, c)])

\* The interactions, with the dates of days and the texts of queries as the
\* user's choices
Interact(days, queries) ==
    \/ \E start \in days, end \in days : SetDateRange(start, end)
    \/ \E start \in days : PickStart(start)
    \/ \E chosen \in SUBSET Options(data, "CloudProvider") : SetProviders(chosen)
    \/ \E chosen \in SUBSET Options(data, "ResourceType") : SetResources(chosen)
    \/ \E query \in queries : SetSearch(query)
    \/ \E i \in DOMAIN ClientOptions : SelectClient(ClientOptions[i])

-----------------------------------------------------------------------------
(* Specifications.  Four are the page over a family of uploaded files: a     *)
(* session starts with the first upload, of any file of the family; the user  *)
(* may then replace the file by one of UploadFiles or remove it.  SpecLoad is *)
(* load_uploaded_file called on its own, with file names the uploader of the  *)
(* page refuses among its inputs.                                             *)

\* The files a user offers to the uploader later on
UploadFiles ==
    {File(NameTxt, {"Client", "CostUSD"}, <<[Client |-> Acme, CostUSD |-> 1]>>),
     File(NameCsv, {"Date", "CostUSD"}, <<[Date |-> "not a date", CostUSD |-> 1]>>)}

NextOver(days, queries) ==
    \/ \E file \in UploadFiles : Upload(file)
    \/ ClearUpload
    \/ Interact(days, queries)

\* Files for the global filters and the overall tab: every subset of the three
\* filter columns beside CostUSD, missing dates and providers included.  A row
\* differs from the first day's AWS VM in at most one filter column
MaxRows == 2

FilterRows ==
    {r \in [Date : {"", "2024-01-01", "2024-01-02"}, CloudProvider : {"AWS", NaN},
             ResourceType : {"VM", "DB"}, CostUSD : {1}] :
       Cardinality({c \in {"Date", "CloudProvider", "ResourceType"} :
                      r[c] \notin {"2024-01-01", "AWS", "VM"}}) <= 1}

FilterFiles ==
    FilesOver({NameCsv}, FilterRows,
              {cs \cup {"CostUSD"} : cs \in SUBSET {"Date", "CloudProvider", "ResourceType"}},
              MaxRows)

Init == \E file \in FilterFiles : StartWith(file)

Next == NextOver({1, 2}, {<<>>, <<"b">>})

Spec == Init /\ [][Next]_vars

\* Inputs of load_uploaded_file: every file name over a few tables, unparseable
\* dates included
MaxLoadRows == 2

LoadRows ==
    [Date : {"", "2024-01-02", "not a date"}, Client : {Acme}, CostUSD : {1}]

LoadFiles ==
    FilesOver(FileNames, LoadRows, {{"Date", "Client", "CostUSD"}, {"Client", "CostUSD"}},
              MaxLoadRows)

InitLoad == FirstPage(DefaultFile, FirstRun)

NextLoad == \E file \in LoadFiles : CallLoad(file)

SpecLoad == InitLoad /\ [][NextLoad]_vars

\* Files for the client search: client names, missing ones included
MaxNameRows == 3

NameRows == [Client : {Acme, Bravo, acme2, ACME, NoText}, CostUSD : {1}]

NameFiles == FilesOver({NameCsv}, NameRows, {{"Client", "CostUSD"}}, MaxNameRows)

Queries ==
    {<<>>, <<"a", "c", "m", "e">>, <<"A", "C">>, <<"m", "e", "2">>, <<"b">>, <<"z">>}

InitSearch == \E file \in NameFiles : StartWith(file)

NextSearch == NextOver({1}, Queries)

SpecSearch == InitSearch /\ [][NextSearch]_vars

\* Files for the client computations: usage and cost, over every subset of
\* the columns they read, with and without the columns the display reads
MaxCostRows == 2

CostRows ==
    [Client : {Acme, Bravo}, UsageHours : {0, 1, 10}, CostUSD : {0, 1, 2},
     Date : {"2024-01-01"}, CloudProvider : {"AWS"}, ResourceType : {"VM"}]

CostFiles ==
    FilesOver({NameCsv}, CostRows,
              {{"Client"} \cup cs \cup ds :
                 cs \in SUBSET {"UsageHours", "CostUSD"},
                 ds \in {{}, {"Date", "CloudProvider", "ResourceType"}}},
              MaxCostRows)

\* Files with more underutilized rows than the page shows: one row of heavy
\* usage after HeadN + 1 rows of light usage
LightRows ==
    {r \in [Client : {Acme}, UsageHours : {0, 1}, CostUSD : {1, 2},
             Date : {"2024-01-01"}, CloudProvider : {"AWS"}, ResourceType : {"VM"}] :
       r.UsageHours = 0 => r.CostUSD = 1}

HeavyRow ==
    [Client |-> Acme, UsageHours |-> 100, CostUSD |-> 1, Date |-> "2024-01-01",
     CloudProvider |-> "AWS", ResourceType |-> "VM"]

LongFiles ==
    {File(NameCsv, DOMAIN HeavyRow, Append(rows, HeavyRow)) :
       rows \in [1..(HeadN + 1) -> LightRows]}

InitCost == \E file \in CostFiles \cup LongFiles : StartWith(file)

NextCost == NextOver({1}, {<<>>, <<"b">>})

SpecCost == InitCost /\ [][NextCost]_vars

\* Files for the client tab under the global filters
MaxMixedRows == 2

\* A row of Acme differs from the first day's AWS VM in at most one filter
\* column, a row of Bravo in none
MixedRows ==
    {r \in [Client : {Acme, Bravo}, Date : {"2024-01-01", "2024-01-02"},
             CloudProvider : {"AWS", "GCP"}, ResourceType : {"VM", "DB"}, CostUSD : {1}] :
       Cardinality({c \in {"Date", "CloudProvider", "ResourceType"} :
                      r[c] \notin {"2024-01-01", "AWS", "VM"}})
         <= (IF r.Client = Acme THEN 1 ELSE 0)}

MixedFiles ==
    FilesOver({NameCsv}, MixedRows,
              {{"Client", "Date", "CloudProvider", "ResourceType", "CostUSD"}},
              MaxMixedRows)

InitMixed == \E file \in MixedFiles : StartWith(file)

NextMixed == NextOver({1, 2}, {<<>>, <<"b">>})

SpecMixed == InitMixed /\ [][NextMixed]_vars

-----------------------------------------------------------------------------
(* The properties checked, and what each is checked against *)

Present(opt) == opt # None

Min(a, b) == IF a < b THEN a ELSE b

\* ---- C1: the global filter ----

DateActive == date_range # None /\ "Date" \in data.cols

ProvidersActive == "CloudProvider" \in data.cols /\ providers # {}

ResourcesActive == "ResourceType" \in data.cols /\ resources # {}

\* The row satisfies every active constraint
Satisfies(r) ==
    /\ DateActive =>
         r.Date # NaT /\ date_range[1] <= r.Date /\ r.Date <= date_range[2]
    /\ ProvidersActive => r.CloudProvider \in providers
    /\ ResourcesActive => r.ResourceType \in resources

\* C1: the filtered table has the columns of the loaded one and exactly its
\* rows that satisfy every active constraint, in their order; a constraint is
\* active when its column exists and, for the two sets, the set is not empty;
\* the date bounds are inclusive and a row without a date fails an active
\* date range.  A date range is none or a start and an end.
FilterRetainsExactlySatisfying ==
    (Loaded /\ Len(date_range) # 1) =>
      /\ filtered.cols = data.cols
      /\ filtered.rows = SelectSeq(data.rows, Satisfies)

\* A date range whose end is the date of a kept row removes a row without a
\* date, while an empty provider set removes nothing
FilterWitness ==
    /\ DateActive /\ Len(date_range) = 2
    /\ "CloudProvider" \in data.cols /\ providers = {}
    /\ Len(data.rows) = 2 /\ Len(filtered.rows) = 1
    /\ \E i \in DOMAIN data.rows : data.rows[i].Date = NaT
    /\ filtered.rows[1].Date = date_range[2]

\* ---- C2: group-by-sum conserves the total ----

RECURSIVE SumValues(_)
SumValues(f) ==
    IF DOMAIN f = {} THEN 0
    ELSE LET k == CHOOSE x \in DOMAIN f : TRUE
         IN  f[k] + SumValues([x \in DOMAIN f \ {k} |-> f[x]])

Conserves(groups, rows) ==
    Present(groups) => SumValues(groups[1]) = SumCol(rows, "CostUSD")

\* C2: the sums of every group-by-sum of the overall tab add up to the sum of
\* CostUSD over all the filtered rows, rows with a missing group value included.
GroupSumsConserveTotal ==
    /\ Conserves(overall.provider_costs, filtered.rows)
    /\ Conserves(overall.resource_costs, filtered.rows)
    /\ Conserves(overall.daily_costs, filtered.rows)
    /\ Conserves(overall.region_costs, filtered.rows)
    /\ Conserves(overall.cc_costs, filtered.rows)

\* ---- C3: absent columns ----

\* C3: no rendering pass ends in a missing-column failure, whichever columns
\* the loaded table has.
NoMissingColumnFailure == error # "KeyError"

\* ---- C4: unparseable dates ----

HoldsBadDate(file) ==
    /\ Suffix(file.name) \in Supported
    /\ "Date" \in file.cols
    /\ \E i \in DOMAIN file.rows : ~Parseable(file.rows[i].Date)

\* C4: a file whose Date column holds an unparseable value still loads: the
\* table has every row of the file, the unparseable cells are missing and the
\* others are dates.
BadDateBecomesMissing ==
    HoldsBadDate(uploaded_file) =>
      /\ error # "ValueError"
      /\ DOMAIN data.rows = DOMAIN uploaded_file.rows
      /\ \A i \in DOMAIN data.rows :
           data.rows[i].Date =
             IF Parseable(uploaded_file.rows[i].Date)
             THEN ToDatetime(uploaded_file.rows[i].Date) ELSE NaT

\* ---- C5: unsupported suffixes ----

\* The names of FileNames whose suffix, in lower case, is none of csv, gz,
\* parquet, xlsx, xls, json
UnsupportedNames == {NameTxt, NameBak, NameNoDot, NameTrailingDot, NameCsvx}

\* C5: a file with an unsupported suffix gives the error signal and the empty
\* table, nothing is raised, and the pass goes on to its end over that table
\* (the client tab reports the missing Client column).
UnsupportedGivesEmptyTable ==
    uploaded_file.name \in UnsupportedNames =>
      /\ error = "none"
      /\ "Unsupported file type" \in signals
      /\ data = EmptyFrame
      /\ filtered = EmptyFrame
      /\ overall = NoOverall
      /\ "no Client column" \in signals

\* A file with rows and a supported suffix before its last one
UnsupportedWitness ==
    /\ uploaded_file.name = NameBak
    /\ Len(uploaded_file.rows) > 0
    /\ data = EmptyFrame
    /\ "Unsupported file type" \in signals

\* ---- C6: underutilized resources ----

ClientRows == IF Present(client_view.client_data) THEN client_view.client_data[1] ELSE <<>>

\* UsageHours < 0.2 * mean(UsageHours) and CostUSD > 0
Qualifies(r, rows) ==
    5 * Len(rows) * r.UsageHours < SumCol(rows, "UsageHours") /\ r.CostUSD > 0

Qualifying(rows) == {i \in DOMAIN rows : Qualifies(rows[i], rows)}

\* CostPerHour of a is at least that of b, a zero divisor giving infinity
CostPerHourGe(a, b) == a.CostUSD * b.UsageHours >= b.CostUSD * a.UsageHours

SameUsageAndCost(a, b) == a.UsageHours = b.UsageHours /\ a.CostUSD = b.CostUSD

\* shown is the first five of the qualifying rows in descending CostPerHour
IsTopFive(shown, rows) ==
    /\ Len(shown) = Min(HeadN, Cardinality(Qualifying(rows)))
    /\ \A k \in 1..(Len(shown) - 1) : CostPerHourGe(shown[k], shown[k + 1])
    /\ \A k \in DOMAIN shown :
         Cardinality({j \in DOMAIN shown : SameUsageAndCost(shown[j], shown[k])})
           <= Cardinality({i \in Qualifying(rows) : SameUsageAndCost(rows[i], shown[k])})
    /\ \A i \in Qualifying(rows) :
         Cardinality({j \in DOMAIN shown : SameUsageAndCost(shown[j], rows[i])})
           < Cardinality({j \in Qualifying(rows) : SameUsageAndCost(rows[j], rows[i])})
         => \A k \in DOMAIN shown : CostPerHourGe(shown[k], rows[i])

UnderutilizedAsClaimed ==
    IF Qualifying(ClientRows) = {}
    THEN ~Present(client_view.shown_underutilized)
    ELSE /\ Present(client_view.shown_underutilized)
         /\ IsTopFive(client_view.shown_underutilized[1], ClientRows)

\* C6: for every client table with UsageHours and CostUSD the underutilized
\* result is the rows with UsageHours < 0.2 * mean(UsageHours) and CostUSD > 0,
\* in descending CostPerHour, cut to the first 5; it is empty when no row
\* qualifies.
UnderutilizedForEveryClientTable ==
    (ClientRows # <<>> /\ {"UsageHours", "CostUSD"} \subseteq data.cols)
      => UnderutilizedAsClaimed

\* The same on the tables that also hold the three columns the display reads,
\* where the code computes it
UnderutilizedWhereDisplayed ==
    (ClientRows # <<>> /\ DisplayCols \ {"CostPerHour"} \subseteq data.cols)
      => UnderutilizedAsClaimed

\* More rows qualify than are shown
UnderutilizedTruncated ==
    /\ {"UsageHours", "CostUSD"} \subseteq data.cols
    /\ Cardinality(Qualifying(ClientRows)) > HeadN
    /\ Present(client_view.shown_underutilized)
    /\ Len(client_view.shown_underutilized[1]) = HeadN

\* ---- C7: a client without rows ----

NoRowOfSelected ==
    \A i \in DOMAIN data.rows :
       data.rows[i].Client = NoText \/ data.rows[i].Client # selected_client

\* C7: when the pass reaches the client tab and no row is the selected
\* client's (no client can be selected included), the client tab gives the "no data" signal, raises nothing and
\* computes no sum, mean, ratio, group-by or table of the client.
NoDataForClientWithoutRows ==
    (ClientShown /\ NoRowOfSelected) =>
      /\ "No data found" \in signals
      /\ error = "none"
      /\ \A f \in DOMAIN client_view \ {"filtered_client_list", "client_data"} :
           ~Present(client_view[f])

\* A search that matches none of the clients of a table with rows
NoDataWitness ==
    /\ "Client" \in data.cols /\ "CostUSD" \in data.cols
    /\ \E i \in DOMAIN data.rows : data.rows[i].Client # NoText
    /\ search_query # <<>>
    /\ client_view.filtered_client_list = Some(<<>>)
    /\ selected_client = None
    /\ "No data found" \in signals

\* ---- C8: the client search ----

\* q occurs in c when letter case is ignored
OccursIgnoringCase(q, c) ==
    \E i \in 0..(Len(c) - Len(q)) :
       \A k \in 1..Len(q) : LowerChar[q[k]] = LowerChar[c[i + k]]

\* a comes before b in the ascending order of Python strings
Before(a, b) ==
    \E k \in 1..Len(b) :
       /\ \A j \in 1..(k - 1) : j <= Len(a) /\ a[j] = b[j]
       /\ k > Len(a) \/ (k <= Len(a) /\ Ord[a[k]] < Ord[b[k]])

ClientNames == {data.rows[i].Client : i \in DOMAIN data.rows} \ {NoText}

\* C8: the search result holds exactly the client names of the table that
\* contain the query when case is ignored, each once and in ascending order;
\* the empty query gives every client name.
SearchReturnsMatchesInOrder ==
    ClientShown =>
      /\ Present(client_view.filtered_client_list)
      /\ LET list == client_view.filtered_client_list[1]
         IN  /\ \A k \in DOMAIN list :
                  list[k] \in ClientNames /\ OccursIgnoringCase(search_query, list[k])
             /\ \A c \in ClientNames :
                  OccursIgnoringCase(search_query, c) => \E k \in DOMAIN list : list[k] = c
             /\ \A k \in 1..(Len(list) - 1) : Before(list[k], list[k + 1])
             /\ search_query = <<>> => Range(list) = ClientNames
             /\ (ClientNames = {Acme, Bravo, acme2} /\ search_query = Lower(Acme))
                  => list = <<Acme, acme2>>

\* The example of the specification, and a match in the middle of a name
SearchWitness ==
    /\ ClientNames = {Acme, Bravo, acme2}
    /\ search_query = <<"m", "e", "2">>
    /\ client_view.filtered_client_list = Some(<<acme2>>)

\* ---- C9: CostPerHour of a row without usage ----

\* C9: no row with UsageHours = 0 is among the underutilized rows, and the
\* client's average cost per hour is not the infinity such a row gives.
ZeroUsageExcluded ==
    /\ Present(client_view.underutilized) =>
         \A k \in DOMAIN client_view.underutilized[1] :
            client_view.underutilized[1][k].UsageHours # 0
    /\ Present(client_view.avg_cost_per_hour) =>
         ~IsInf(client_view.avg_cost_per_hour[1])

\* ---- C10: the client tab and the global filters ----

\* C10: a step between two passes that reach the tabs and that keeps the loaded
\* file, the search query and the selected client keeps every result of the
\* client tab, whatever it does to the date range, the provider set and the
\* resource set.
ClientViewIgnoresFilters ==
    [][(uploaded_file' = uploaded_file /\ data' = data
          /\ search_query' = search_query /\ selected_client' = selected_client
          /\ error # "IndexError" /\ error' # "IndexError")
         => client_view' = client_view]_vars

\* A row of the selected client that the global filters removed
FilteredOutRowCounts ==
    /\ Present(client_view.client_data)
    /\ \E i \in DOMAIN ClientRows :
          \A j \in DOMAIN filtered.rows : filtered.rows[j] # ClientRows[i]
    /\ Present(client_view.total_cost)
    /\ client_view.total_cost[1] = SumCol(ClientRows, "CostUSD")

=============================================================================
